---- MODULE Spec2Model ----
(***************************************************************************)
(* Model of test-tools/comparison/compare_images.py: the pixel differ,     *)
(* the difference visualizer, the region analyzer, the structural          *)
(* detector and the orchestrating main().                                  *)
(*                                                                         *)
(* A Bitmap is a record [w, h, px] with px a row-major function from       *)
(* 0..w*h-1 to RGB triples (numpy's arr[y][x] is px[y*w + x]).  Floating   *)
(* point results of the code (percentages, means) are kept as exact        *)
(* fractions [num, den]; a denominator of 0 is numpy's nan (the mean of    *)
(* an empty slice).                                                        *)
(***************************************************************************)
EXTENDS Integers, Sequences, FiniteSets

VARIABLES
    pc,             \* position of the running call
    same_stem,      \* the two SVG paths have the same stem: one PNG path for both
    img1, img2,     \* the bitmaps stored at png1_path and png2_path
    arg,            \* argument of a directly called function (percentage, region input)
    arr2,           \* the second array as compared (img2, or its resampled copy)
    metrics,        \* result of compare_images_pixel_diff
    cls,            \* similarity class printed by main
    regions,        \* result of analyze_regions
    rects,          \* the nine slices [y_start:y_end, x_start:x_end] analyze_regions takes
    high_diff_regions, \* main's list of regions above 10.0
    c_elements,     \* result of detect_visual_elements on the first image
    java_elements,  \* result of detect_visual_elements on the second image
    diff_img,       \* bitmap saved by create_diff_image
    fault,          \* which operations of the environment raise in this run
    out             \* the reports printed so far, in order

vars == <<pc, same_stem, img1, img2, arg, arr2, metrics, cls, regions, rects,
          high_diff_regions, c_elements, java_elements, diff_img, fault, out>>

----------------------------------------------------------------------------
(* Bounds of the model *)

\* pixel differ / visualizer calls: bitmaps of at most this many pixels
MaxPixels == 4
\* analyze_regions calls: widths and heights up to this
MaxDim == 10
\* detect_visual_elements calls: widths and heights up to this
MaxDetDim == 2
\* percentages num/den with den up to this
MaxDen == 20
\* main(): side of the rasterized bitmaps (stands for the 800x600 default)
RasterSide == 3

----------------------------------------------------------------------------
(* Values *)

None == [none |-> TRUE]

Rat(n, d) == [num |-> n, den |-> d]

\* a < b, a > b, a = b on fractions; every comparison with nan is false
RatLT(a, b) == a.den > 0 /\ b.den > 0 /\ a.num * b.den < b.num * a.den
RatGT(a, b) == RatLT(b, a)
RatEQ(a, b) == a.den > 0 /\ b.den > 0 /\ a.num * b.den = b.num * a.den

White == <<255, 255, 255>>
Black == <<0, 0, 0>>

BitmapsOf(w, h, palette) ==
    { [w |-> w, h |-> h, px |-> p] : p \in [0..(w * h - 1) -> palette] }

Size(img) == <<img.w, img.h>>

\* palette of the differ calls: channel differences 0, 5, 30 and 255 occur
DiffPalette == { White, <<225, 250, 0>> }

DiffSizes(limit) == { s \in (1..limit) \X (1..limit) : s[1] * s[2] <= limit }

\* every bitmap of at most `limit` pixels over the palette
DiffBitmaps(limit) == UNION { BitmapsOf(s[1], s[2], DiffPalette) : s \in DiffSizes(limit) }

----------------------------------------------------------------------------
(* compare_images_pixel_diff *)

RECURSIVE SumTo(_, _)
\* f[0] + ... + f[n-1]
SumTo(f, n) == IF n = 0 THEN 0 ELSE f[n - 1] + SumTo(f, n - 1)

\* the largest member of a non-empty set of numbers
MaxOf(S) == CHOOSE m \in S : \A x \in S : x <= m

AbsDiff(a, b) == IF a >= b THEN a - b ELSE b - a

\* np.abs(arr1.astype(float) - arr2.astype(float)), shapes equal
DiffArray(a1, a2) ==
    [w |-> a1.w, h |-> a1.h,
     px |-> [i \in 0..(a1.w * a1.h - 1) |->
                <<AbsDiff(a1.px[i][1], a2.px[i][1]),
                  AbsDiff(a1.px[i][2], a2.px[i][2]),
                  AbsDiff(a1.px[i][3], a2.px[i][3])>>]]

\* Resize with width and height exchanged (PIL sizes are (w, h), numpy shapes (h, w))
Resize_Transposed(img, size, palette) == BitmapsOf(size[2], size[1], palette)

\* img2.resize(size, LANCZOS): a bitmap of the requested size.  The filter's
\* arithmetic is not modelled: any bitmap of that size over the palette may result.
Resize(img, size, palette) == BitmapsOf(size[1], size[2], palette)

\* the second image as the differ subtracts it: resampled to img1.size when the
\* sizes differ (lanczos is the resampled copy), itself otherwise
SecondArray(i1, i2, lanczos) == IF Size(i1) # Size(i2) THEN lanczos ELSE i2

\* CountDifferent without np.any(..., axis=2): counts channels, not pixels
CountDifferent_Channels(diff) ==
    SumTo([i \in 0..(diff.w * diff.h - 1) |->
              Cardinality({ c \in 1..3 : diff.px[i][c] > 0 })], diff.w * diff.h)

\* CountDifferent with diff >= 0 for diff > 0
CountDifferent_NonNegative(diff) ==
    SumTo([i \in 0..(diff.w * diff.h - 1) |->
              IF \E c \in 1..3 : diff.px[i][c] >= 0 THEN 1 ELSE 0], diff.w * diff.h)

\* np.count_nonzero(np.any(diff > 0, axis=2))
CountDifferent(diff) ==
    SumTo([i \in 0..(diff.w * diff.h - 1) |->
              IF \E c \in 1..3 : diff.px[i][c] > 0 THEN 1 ELSE 0], diff.w * diff.h)

compare_images_pixel_diff(i1, i2, lanczos) ==
    LET a2 == SecondArray(i1, i2, lanczos)
        diff == DiffArray(i1, a2)
        n == i1.w * i1.h
        total_pixels == i1.h * i1.w
        different_pixels == CountDifferent(diff)
        chan(c) == SumTo([i \in 0..(n - 1) |-> diff.px[i][c]], n)
    IN  [total_pixels |-> total_pixels,
         different_pixels |-> different_pixels,
         percent_different |-> Rat(different_pixels * 100, total_pixels),
         avg_diff_r |-> Rat(chan(1), n),
         avg_diff_g |-> Rat(chan(2), n),
         avg_diff_b |-> Rat(chan(3), n),
         avg_diff_total |-> Rat(chan(1) + chan(2) + chan(3), 3 * n),
         max_diff |-> MaxOf({ diff.px[i][c] : i \in 0..(n - 1), c \in 1..3 }),
         diff_array |-> diff]

\* SizeWarning with the print left out
SizeWarning_Silent(i1, i2) == <<>>

\* the warning compare_images_pixel_diff prints before it resamples
SizeWarning(i1, i2) == IF Size(i1) # Size(i2) THEN <<"size_mismatch">> ELSE <<>>

----------------------------------------------------------------------------
(* create_diff_image *)

AmplifyFactor == 10

ChannelMax == 255

\* Clip with the upper clamp left out
Clip_Unclamped(v) == IF v < 0 THEN 0 ELSE v

\* np.clip(v, 0, 255)
Clip(v) == IF v < 0 THEN 0 ELSE IF v > ChannelMax THEN ChannelMax ELSE v

\* np.clip(diff * 10, 0, 255).astype(np.uint8)
Amplify(d) == Clip(d * AmplifyFactor) % 256

create_diff_image(i1, i2, lanczos) ==
    LET a2 == SecondArray(i1, i2, lanczos)
        diff == DiffArray(i1, a2)
    IN  [w |-> diff.w, h |-> diff.h,
         px |-> [i \in 0..(diff.w * diff.h - 1) |->
                    <<Amplify(diff.px[i][1]), Amplify(diff.px[i][2]),
                      Amplify(diff.px[i][3])>>]]

----------------------------------------------------------------------------
(* Direct calls of the differ and the visualizer on two stored images *)

InitDiff ==
    /\ pc = "diff_input"
    /\ same_stem = FALSE
    /\ img1 \in DiffBitmaps(MaxPixels) /\ img2 \in DiffBitmaps(MaxPixels)
    /\ arg = None /\ arr2 = None
    /\ metrics = None /\ cls = None /\ regions = None /\ rects = None
    /\ high_diff_regions = None /\ c_elements = None /\ java_elements = None
    /\ diff_img = None /\ fault = None /\ out = <<>>

CompareCall ==
    /\ pc = "diff_input"
    /\ \E lanczos \in (IF Size(img1) # Size(img2)
                       THEN Resize(img2, Size(img1), DiffPalette) ELSE {img2}) :
          /\ arr2' = SecondArray(img1, img2, lanczos)
          /\ metrics' = compare_images_pixel_diff(img1, img2, lanczos)
    /\ out' = out \o SizeWarning(img1, img2)
    /\ pc' = "compared"
    /\ UNCHANGED <<same_stem, img1, img2, arg, cls, regions, rects, high_diff_regions,
                   c_elements, java_elements, diff_img, fault>>

DiffImageCall ==
    /\ pc = "diff_input"
    /\ \E lanczos \in (IF Size(img1) # Size(img2)
                       THEN Resize(img2, Size(img1), DiffPalette) ELSE {img2}) :
          /\ arr2' = SecondArray(img1, img2, lanczos)
          /\ diff_img' = create_diff_image(img1, img2, lanczos)
    /\ pc' = "rendered"
    /\ UNCHANGED <<same_stem, img1, img2, arg, metrics, cls, regions, rects,
                   high_diff_regions, c_elements, java_elements, fault, out>>

NextDiff == CompareCall \/ DiffImageCall

SpecDiff == InitDiff /\ [][NextDiff]_vars

----------------------------------------------------------------------------
(* analyze_regions *)

region_names ==
    << "top-left", "top-center", "top-right",
       "mid-left", "mid-center", "mid-right",
       "bottom-left", "bottom-center", "bottom-right" >>

\* BandEnd with the last band cut at three thirds instead of the far edge
BandEnd_NoRemainder(k, third, dim) == (k + 1) * third

\* y_end / x_end of band k (0, 1, 2) of an axis of length dim
BandEnd(k, third, dim) == IF k < 2 THEN (k + 1) * third ELSE dim

\* the slice bounds of region i (0..8, as enumerate numbers them)
RegionRect(i, img_width, img_height) ==
    LET h_third == img_height \div 3
        w_third == img_width \div 3
        row == i \div 3
        col == i % 3
    IN  [y_start |-> row * h_third,
         y_end   |-> BandEnd(row, h_third, img_height),
         x_start |-> col * w_third,
         x_end   |-> BandEnd(col, w_third, img_width)]

\* cell (y, x) of an array of shape (h, w) lies in the slice r
InSlice(r, y, x, w, h) ==
    /\ r.y_start <= y /\ y < r.y_end /\ y < h
    /\ r.x_start <= x /\ x < r.x_end /\ x < w

\* np.mean(diff_array[y_start:y_end, x_start:x_end, :]); nan for an empty slice
RegionMean(diff_array, r) ==
    LET w == diff_array.w
        h == diff_array.h
        inside(i) == InSlice(r, i \div w, i % w, w, h)
        s == SumTo([i \in 0..(w * h - 1) |->
                      IF inside(i)
                      THEN diff_array.px[i][1] + diff_array.px[i][2] + diff_array.px[i][3]
                      ELSE 0], w * h)
        n == SumTo([i \in 0..(w * h - 1) |-> IF inside(i) THEN 1 ELSE 0], w * h)
    IN  Rat(s, 3 * n)

analyze_regions(diff_array, img_width, img_height) ==
    [i \in 1..9 |-> RegionMean(diff_array, RegionRect(i - 1, img_width, img_height))]

\* the slices analyze_regions takes, by region number
RegionRects(img_width, img_height) ==
    [i \in 1..9 |-> RegionRect(i - 1, img_width, img_height)]

\* difference maps handed to analyze_regions: all zero, or one cell at full difference
DotMap(w, h, k, v) ==
    [w |-> w, h |-> h, px |-> [i \in 0..(w * h - 1) |-> IF i = k THEN v ELSE <<0, 0, 0>>]]

RegionInputs(limit) ==
    { [diff_array |-> DotMap(w, h, k, White), img_width |-> w, img_height |-> h] :
        <<w, h, k>> \in { t \in (1..limit) \X (1..limit) \X (-1..(limit * limit - 1)) :
                            t[3] < t[1] * t[2] } }

InitRegions ==
    /\ pc = "regions_input"
    /\ arg \in RegionInputs(MaxDim)
    /\ same_stem = FALSE
    /\ img1 = None /\ img2 = None /\ arr2 = None
    /\ metrics = None /\ cls = None /\ regions = None /\ rects = None
    /\ high_diff_regions = None /\ c_elements = None /\ java_elements = None
    /\ diff_img = None /\ fault = None /\ out = <<>>

AnalyzeCall ==
    /\ pc = "regions_input"
    /\ regions' = analyze_regions(arg.diff_array, arg.img_width, arg.img_height)
    /\ rects' = RegionRects(arg.img_width, arg.img_height)
    /\ pc' = "analyzed"
    /\ UNCHANGED <<same_stem, img1, img2, arg, arr2, metrics, cls, high_diff_regions,
                   c_elements, java_elements, diff_img, fault, out>>

NextRegions == AnalyzeCall

SpecRegions == InitRegions /\ [][NextRegions]_vars

----------------------------------------------------------------------------
(* detect_visual_elements *)

WhiteLevel == 250

\* NonWhite with arr <= 250 for arr < 250
NonWhite_Inclusive(img, i) == \E c \in 1..3 : img.px[i][c] <= WhiteLevel

\* np.any(arr < 250, axis=2) at flat index i
NonWhite(img, i) == \E c \in 1..3 : img.px[i][c] < WhiteLevel

\* np.any(non_white[y, :])
RowAny(img, y) == \E x \in 0..(img.w - 1) : NonWhite(img, y * img.w + x)

\* np.any(non_white[:, x])
ColAny(img, x) == \E y \in 0..(img.h - 1) : NonWhite(img, y * img.w + x)

RECURSIVE HorizontalEdges(_, _)
\* for y in range(arr.shape[0] - 1), from y on
HorizontalEdges(img, y) ==
    IF y >= img.h - 1 THEN 0
    ELSE (IF RowAny(img, y) /\ ~RowAny(img, y + 1) THEN 1 ELSE 0)
         + HorizontalEdges(img, y + 1)

RECURSIVE VerticalEdges(_, _)
\* for x in range(arr.shape[1] - 1), from x on
VerticalEdges(img, x) ==
    IF x >= img.w - 1 THEN 0
    ELSE (IF ColAny(img, x) /\ ~ColAny(img, x + 1) THEN 1 ELSE 0)
         + VerticalEdges(img, x + 1)

detect_visual_elements(img) ==
    LET n == img.w * img.h
        colored_pixels == SumTo([i \in 0..(n - 1) |-> IF NonWhite(img, i) THEN 1 ELSE 0], n)
        total_pixels == img.h * img.w
    IN  [colored_pixels |-> colored_pixels,
         colored_percent |-> Rat(colored_pixels * 100, total_pixels),
         horizontal_transitions |-> HorizontalEdges(img, 0),
         vertical_transitions |-> VerticalEdges(img, 0)]

\* palette of the detector calls: white, the lightest background level, and one
\* channel just below it
DetPalette == { White, <<250, 250, 250>>, <<255, 249, 255>> }

DetBitmaps(limit) ==
    UNION { BitmapsOf(s[1], s[2], DetPalette) : s \in (1..limit) \X (1..limit) }

InitDetect ==
    /\ pc = "detect_input"
    /\ img1 \in DetBitmaps(MaxDetDim)
    /\ same_stem = FALSE
    /\ img2 = None /\ arg = None /\ arr2 = None
    /\ metrics = None /\ cls = None /\ regions = None /\ rects = None
    /\ high_diff_regions = None /\ c_elements = None /\ java_elements = None
    /\ diff_img = None /\ fault = None /\ out = <<>>

DetectCall ==
    /\ pc = "detect_input"
    /\ c_elements' = detect_visual_elements(img1)
    /\ pc' = "detected"
    /\ UNCHANGED <<same_stem, img1, img2, arg, arr2, metrics, cls, regions, rects,
                   high_diff_regions, java_elements, diff_img, fault, out>>

NextDetect == DetectCall

SpecDetect == InitDetect /\ [][NextDetect]_vars

----------------------------------------------------------------------------
(* main: the similarity class *)

\* SimilarityClass with <= for < at each threshold
SimilarityClass_Inclusive(percent_different) ==
    IF ~RatGT(percent_different, Rat(1, 10)) THEN "nearly identical"
    ELSE IF ~RatGT(percent_different, Rat(1, 1)) THEN "very similar"
    ELSE IF ~RatGT(percent_different, Rat(10, 1)) THEN "minor differences"
    ELSE "significantly different"

\* the if / elif chain on metrics['percent_different']
SimilarityClass(percent_different) ==
    IF RatLT(percent_different, Rat(1, 10)) THEN "nearly identical"
    ELSE IF RatLT(percent_different, Rat(1, 1)) THEN "very similar"
    ELSE IF RatLT(percent_different, Rat(10, 1)) THEN "minor differences"
    ELSE "significantly different"

\* percentages in [0, 100]
Percentages(limit) ==
    { Rat(t[1], t[2]) : t \in { u \in (0..(100 * limit)) \X (1..limit) : u[1] <= 100 * u[2] } }

InitClassify ==
    /\ pc = "classify_input"
    /\ arg \in Percentages(MaxDen)
    /\ same_stem = FALSE
    /\ img1 = None /\ img2 = None /\ arr2 = None
    /\ metrics = None /\ cls = None /\ regions = None /\ rects = None
    /\ high_diff_regions = None /\ c_elements = None /\ java_elements = None
    /\ diff_img = None /\ fault = None /\ out = <<>>

ClassifyCall ==
    /\ pc = "classify_input"
    /\ cls' = SimilarityClass(arg)
    /\ pc' = "classified"
    /\ UNCHANGED <<same_stem, img1, img2, arg, arr2, metrics, regions, rects,
                   high_diff_regions, c_elements, java_elements, diff_img, fault, out>>

NextClassify == ClassifyCall

SpecClassify == InitClassify /\ [][NextClassify]_vars

----------------------------------------------------------------------------
(* main *)

\* what svg_to_png can leave at a PNG path: a white page, a page with one black
\* pixel, or a black page, always side x side (output_width / output_height)
RasterPalette == { White, Black }

RasterBitmaps(side) ==
    { [w |-> side, h |-> side,
       px |-> [i \in 0..(side * side - 1) |-> IF i = k THEN Black ELSE White]] :
        k \in -1..(side * side - 1) }
    \cup BitmapsOf(side, side, {Black})

NoFault ==
    [deps |-> FALSE, convert |-> 0, pixel |-> FALSE, region |-> FALSE,
     detect |-> {}, diffmap |-> FALSE]

Init ==
    /\ pc = "start"
    /\ same_stem \in BOOLEAN
    /\ img1 = None /\ img2 = None /\ arg = None /\ arr2 = None
    /\ metrics = None /\ cls = None /\ regions = None /\ rects = None
    /\ high_diff_regions = None /\ c_elements = None /\ java_elements = None
    /\ diff_img = None
    /\ fault = NoFault
    /\ out = <<>>

\* the banner and check_dependencies: a missing library ends the run with 1
Start ==
    /\ pc = "start"
    /\ \E missing \in BOOLEAN :
          /\ fault' = [fault EXCEPT !.deps = missing]
          /\ IF missing
             THEN /\ out' = out \o <<"banner", "missing_dependencies">>
                  /\ pc' = "exit1"
             ELSE /\ out' = out \o <<"banner">>
                  /\ pc' = "convert"
    /\ UNCHANGED <<same_stem, img1, img2, arg, arr2, metrics, cls, regions, rects,
                   high_diff_regions, c_elements, java_elements, diff_img>>

\* === 1 ===: both svg_to_png calls in one try; the second conversion writes to
\* the first one's path when the stems are equal
ConvertStage ==
    /\ pc = "convert"
    /\ \E f \in 0..2 :
          /\ fault' = [fault EXCEPT !.convert = f]
          /\ CASE f = 1 ->
                    /\ out' = out \o <<"converting1", "convert_error">>
                    /\ UNCHANGED <<img1, img2>>
                    /\ pc' = "exit1"
               [] f = 2 ->
                    /\ out' = out \o <<"converting1", "created1", "converting2",
                                       "convert_error">>
                    /\ \E b1 \in RasterBitmaps(RasterSide) :
                          /\ img1' = b1
                          /\ img2' = IF same_stem THEN b1 ELSE img2
                    /\ pc' = "exit1"
               [] f = 0 ->
                    /\ out' = out \o <<"converting1", "created1", "converting2",
                                       "created2">>
                    /\ \E b2 \in RasterBitmaps(RasterSide) :
                          /\ img2' = b2
                          /\ \E b1 \in RasterBitmaps(RasterSide) :
                                img1' = IF same_stem THEN b2 ELSE b1
                    /\ pc' = "pixel"
    /\ UNCHANGED <<same_stem, arg, arr2, metrics, cls, regions, rects,
                   high_diff_regions, c_elements, java_elements, diff_img>>

\* === 2 ===: the differ, its figures and the similarity class; an exception ends
\* the run with 1
PixelStage ==
    /\ pc = "pixel"
    /\ \E raise \in BOOLEAN :
          /\ fault' = [fault EXCEPT !.pixel = raise]
          /\ IF raise
             THEN /\ out' = out \o <<"compare_error">>
                  /\ UNCHANGED <<arr2, metrics, cls>>
                  /\ pc' = "exit1"
             ELSE /\ \E lanczos \in (IF Size(img1) # Size(img2)
                                     THEN Resize(img2, Size(img1), RasterPalette)
                                     ELSE {img2}) :
                        /\ arr2' = SecondArray(img1, img2, lanczos)
                        /\ metrics' = compare_images_pixel_diff(img1, img2, lanczos)
                  /\ cls' = SimilarityClass(metrics'.percent_different)
                  /\ out' = out \o SizeWarning(img1, img2) \o <<"metrics", cls'>>
                  /\ pc' = "region"
    /\ UNCHANGED <<same_stem, img1, img2, arg, regions, rects, high_diff_regions,
                   c_elements, java_elements, diff_img>>

\* sorted(regions.items(), key=lambda x: x[1], reverse=True): region numbers by
\* falling mean, equal means in their first order (the sort is stable)
SortedRegions(regs) ==
    LET before(j, i) == RatGT(regs[j], regs[i]) \/ (RatEQ(regs[j], regs[i]) /\ j < i)
        rank(i) == Cardinality({ j \in 1..9 : before(j, i) }) + 1
    IN  [k \in 1..9 |-> CHOOSE i \in 1..9 : rank(i) = k]

\* the region names at the numbers of a sequence
Names(seq) == [k \in 1..Len(seq) |-> region_names[seq[k]]]

\* the lines main prints: of the five largest regions, those above 1.0
PrintedRegions(regs, sorted) ==
    LET shown(i) == RatGT(regs[i], Rat(1, 1))
    IN  Names(SelectSeq(SubSeq(sorted, 1, 5), shown))

\* [name for name, diff in sorted_regions if diff > 10.0]
HighDiffRegions(regs, sorted) ==
    LET high(i) == RatGT(regs[i], Rat(10, 1))
    IN  Names(SelectSeq(sorted, high))

\* RegionStage with `return 1` in its except branch, as stage 2 has
RegionStage_Abort ==
    /\ pc = "region"
    /\ \E raise \in BOOLEAN :
          /\ fault' = [fault EXCEPT !.region = raise]
          /\ IF raise
             THEN /\ out' = out \o <<"regions_skipped">>
                  /\ UNCHANGED <<regions, rects, high_diff_regions>>
                  /\ pc' = "exit1"
             ELSE /\ \E regs \in {analyze_regions(metrics.diff_array, img1.w, img1.h)} :
                     \E sorted \in {SortedRegions(regs)} :
                        /\ regions' = regs
                        /\ high_diff_regions' = HighDiffRegions(regs, sorted)
                        /\ out' = out \o <<"regions_header">>
                                      \o PrintedRegions(regs, sorted)
                                      \o (IF HighDiffRegions(regs, sorted) # <<>>
                                          THEN <<"high_difference">> ELSE <<>>)
                  /\ rects' = RegionRects(img1.w, img1.h)
                  /\ pc' = "elements"
    /\ UNCHANGED <<same_stem, img1, img2, arg, arr2, metrics, cls,
                   c_elements, java_elements, diff_img>>

\* === 3 ===: analyze_regions on the differ's map; an exception is reported and
\* the run goes on
RegionStage ==
    /\ pc = "region"
    /\ \E raise \in BOOLEAN :
          /\ fault' = [fault EXCEPT !.region = raise]
          /\ IF raise
             THEN /\ out' = out \o <<"regions_skipped">>
                  /\ UNCHANGED <<regions, rects, high_diff_regions>>
             ELSE /\ \E regs \in {analyze_regions(metrics.diff_array, img1.w, img1.h)} :
                     \E sorted \in {SortedRegions(regs)} :
                        /\ regions' = regs
                        /\ high_diff_regions' = HighDiffRegions(regs, sorted)
                        /\ out' = out \o <<"regions_header">>
                                      \o PrintedRegions(regs, sorted)
                                      \o (IF HighDiffRegions(regs, sorted) # <<>>
                                          THEN <<"high_difference">> ELSE <<>>)
                  /\ rects' = RegionRects(img1.w, img1.h)
    /\ pc' = "elements"
    /\ UNCHANGED <<same_stem, img1, img2, arg, arr2, metrics, cls,
                   c_elements, java_elements, diff_img>>

\* abs(c['colored_percent'] - java['colored_percent']) > 5.0
CoverageDiffers(c, j) ==
    LET a == c.colored_percent
        b == j.colored_percent
    IN  RatGT(Rat(AbsDiff(a.num * b.den, b.num * a.den), a.den * b.den), Rat(5, 1))

\* === 4 ===: both detect_visual_elements calls in one try: the first exception
\* ends the stage, which is reported as skipped, and the run goes on
ElementStage ==
    /\ pc = "elements"
    /\ \E raising \in SUBSET {1, 2} :
          /\ fault' = [fault EXCEPT !.detect = raising]
          /\ IF 1 \in raising
             THEN /\ out' = out \o <<"c_header", "elements_skipped">>
                  /\ UNCHANGED <<c_elements, java_elements>>
             ELSE /\ c_elements' = detect_visual_elements(img1)
                  /\ IF 2 \in raising
                     THEN /\ out' = out \o <<"c_header", "c_elements", "java_header",
                                             "elements_skipped">>
                          /\ UNCHANGED java_elements
                     ELSE /\ java_elements' = detect_visual_elements(img2)
                          /\ out' = out \o <<"c_header", "c_elements", "java_header",
                                             "java_elements">>
                                        \o (IF CoverageDiffers(c_elements', java_elements')
                                            THEN <<"coverage_differs">> ELSE <<>>)
    /\ pc' = "diffmap"
    /\ UNCHANGED <<same_stem, img1, img2, arg, arr2, metrics, cls, regions, rects,
                   high_diff_regions, diff_img>>

\* === 5 ===: create_diff_image; an exception is reported; then the closing
\* banner and return 0
DiffMapStage ==
    /\ pc = "diffmap"
    /\ \E raise \in BOOLEAN :
          /\ fault' = [fault EXCEPT !.diffmap = raise]
          /\ IF raise
             THEN /\ out' = out \o <<"diffmap_error", "complete">>
                  /\ UNCHANGED diff_img
             ELSE /\ \E lanczos \in (IF Size(img1) # Size(img2)
                                     THEN Resize(img2, Size(img1), RasterPalette)
                                     ELSE {img2}) :
                        diff_img' = create_diff_image(img1, img2, lanczos)
                  /\ out' = out \o <<"diffmap_saved", "complete">>
    /\ pc' = "done"
    /\ UNCHANGED <<same_stem, img1, img2, arg, arr2, metrics, cls, regions, rects,
                   high_diff_regions, c_elements, java_elements>>

Next ==
    \/ Start
    \/ ConvertStage
    \/ PixelStage
    \/ RegionStage
    \/ ElementStage
    \/ DiffMapStage

Spec == Init /\ [][Next]_vars

\* main is straight-line code: a stage that can run does run
FairSpec ==
    /\ Spec
    /\ WF_vars(Start) /\ WF_vars(ConvertStage) /\ WF_vars(PixelStage)
    /\ WF_vars(RegionStage) /\ WF_vars(ElementStage) /\ WF_vars(DiffMapStage)

----------------------------------------------------------------------------
(* Properties *)

Printed(tag) == \E k \in 1..Len(out) : out[k] = tag

Cells(img) == 0..(img.w * img.h - 1)

\* C1: after the differ has run, different_pixels is the number of pixels with
\* some channel whose absolute difference is above zero, it never exceeds
\* total_pixels = width * height, it equals total_pixels exactly when every pixel
\* differs on some channel, and percent_different = 100 * different / total.
C1_DifferentPixelsBounded ==
    pc = "compared" =>
        LET differs(i) ==
                \E c \in 1..3 :
                    (IF img1.px[i][c] > arr2.px[i][c]
                     THEN img1.px[i][c] - arr2.px[i][c]
                     ELSE arr2.px[i][c] - img1.px[i][c]) > 0
        IN  /\ metrics.total_pixels = img1.w * img1.h
            /\ metrics.different_pixels = Cardinality({ i \in Cells(img1) : differs(i) })
            /\ metrics.different_pixels <= metrics.total_pixels
            /\ (metrics.different_pixels = metrics.total_pixels)
                  <=> (\A i \in Cells(img1) : differs(i))
            /\ metrics.percent_different.den > 0
            /\ metrics.percent_different.num * metrics.total_pixels
                  = 100 * metrics.different_pixels * metrics.percent_different.den

C1_Witness ==
    /\ pc = "compared"
    /\ Size(img1) = Size(img2)
    /\ metrics.total_pixels > 1
    /\ metrics.different_pixels = metrics.total_pixels

\* C2: when main compares a bitmap with itself, different_pixels, the
\* percentage, the overall mean and the maximum are all 0 and the class printed
\* is "nearly identical".
C2_SelfComparison ==
    (pc \in {"region", "elements", "diffmap", "done"} /\ img1 = img2) =>
        /\ metrics.different_pixels = 0
        /\ metrics.percent_different.num = 0 /\ metrics.percent_different.den > 0
        /\ metrics.avg_diff_total.num = 0 /\ metrics.avg_diff_total.den > 0
        /\ metrics.max_diff = 0
        /\ cls = "nearly identical"
        /\ Printed("nearly identical")

C2_Witness ==
    /\ pc = "done"
    /\ img1 = img2
    /\ ~same_stem
    /\ \E i \in Cells(img1) : img1.px[i] = Black
    /\ cls = "nearly identical"

\* C3: the nine slices of analyze_regions cover every cell of the map exactly
\* once; in each axis the first two bands are dimension \div 3 long and the last
\* is dimension - 2 * (dimension \div 3) long; each region's mean is taken over
\* exactly the cells of its slice.
C3_RegionsTile ==
    pc = "analyzed" =>
        LET w == arg.img_width
            h == arg.img_height
            band(k, dim) == IF k < 2 THEN dim \div 3 ELSE dim - 2 * (dim \div 3)
            covers(i, y, x) ==
                /\ rects[i].y_start <= y /\ y < rects[i].y_end
                /\ rects[i].x_start <= x /\ x < rects[i].x_end
        IN  /\ \A y \in 0..(h - 1), x \in 0..(w - 1) :
                  Cardinality({ i \in 1..9 : covers(i, y, x) }) = 1
            /\ \A i \in 1..9 :
                  /\ rects[i].y_start >= 0 /\ rects[i].y_end <= h
                  /\ rects[i].x_start >= 0 /\ rects[i].x_end <= w
                  /\ rects[i].y_end - rects[i].y_start = band((i - 1) \div 3, h)
                  /\ rects[i].x_end - rects[i].x_start = band((i - 1) % 3, w)
                  /\ regions[i].den = 3 * band((i - 1) \div 3, h) * band((i - 1) % 3, w)

C3_Witness ==
    /\ pc = "analyzed"
    /\ arg.img_width = 10 /\ arg.img_height = 7
    /\ rects[1].x_end - rects[1].x_start = 3
    /\ rects[2].x_end - rects[2].x_start = 3
    /\ rects[3].x_end - rects[3].x_start = 4
    /\ rects[9].y_end - rects[9].y_start = 3
    /\ regions[9].num > 0

\* C4 as stated: called with bitmaps of different dimensions, the differ fails
\* with DimensionMismatch and produces no map and no metrics.
C4_DifferRejectsMismatch ==
    (pc = "compared" /\ Size(img1) # Size(img2)) => (metrics = None /\ arr2 = None)

\* C4, amended: called with bitmaps of different dimensions, the differ itself
\* resamples the second one to the first one's dimensions and returns a map and
\* metrics of those dimensions; it does not fail.
C4_DifferResamples ==
    (pc = "compared" /\ Size(img1) # Size(img2)) =>
        /\ metrics # None
        /\ arr2 # img2
        /\ Size(arr2) = Size(img1)
        /\ Size(metrics.diff_array) = Size(img1)
        /\ DOMAIN metrics.diff_array.px = Cells(img1)

C4_Witness ==
    /\ pc = "compared"
    /\ Size(img1) = <<1, 3>> /\ Size(img2) = <<2, 2>>
    /\ Size(metrics.diff_array) = <<1, 3>>
    /\ metrics.different_pixels = 2

\* C6: after the structural stage, each image whose detection does not raise
\* has its summary computed and printed, whether or not the other one raises.
C6_DetectionsIndependent ==
    pc \in {"diffmap", "done"} =>
        /\ (1 \notin fault.detect) => (c_elements # None /\ Printed("c_elements"))
        /\ (2 \notin fault.detect) => (java_elements # None /\ Printed("java_elements"))

\* C7: the class is "nearly identical" for p < 0.1, "very similar" for
\* 0.1 <= p < 1.0, "minor differences" for 1.0 <= p < 10.0 and "significantly
\* different" for p >= 10.0, for every percentage p = num/den in [0, 100].
C7_ClassByThresholds ==
    pc = "classified" =>
        LET n == arg.num
            d == arg.den
        IN  /\ cls \in {"nearly identical", "very similar", "minor differences",
                        "significantly different"}
            /\ (cls = "nearly identical") <=> (10 * n < d)
            /\ (cls = "very similar") <=> (10 * n >= d /\ n < d)
            /\ (cls = "minor differences") <=> (n >= d /\ n < 10 * d)
            /\ (cls = "significantly different") <=> (n >= 10 * d)

C7_Witness ==
    /\ pc = "classified"
    /\ arg = Rat(1, 10)
    /\ cls = "very similar"

\* C8: the differ and the visualizer subtract the second bitmap from the first
\* bitmap as stored; when the sizes differ the second is resampled to the first
\* one's size, the map and total_pixels have the first one's dimensions and the
\* differ prints the size-mismatch warning; when the sizes are equal the second
\* bitmap is used as stored and no warning is printed.
C8_SecondResizedToFirst ==
    pc \in {"compared", "rendered"} =>
        /\ Size(arr2) = Size(img1)
        /\ (Size(img1) = Size(img2)) => (arr2 = img2 /\ out = <<>>)
        /\ pc = "compared" =>
              /\ Size(metrics.diff_array) = Size(img1)
              /\ metrics.total_pixels = img1.w * img1.h
              /\ \A i \in Cells(img1), c \in 1..3 :
                    metrics.diff_array.px[i][c] \in
                        { img1.px[i][c] - arr2.px[i][c], arr2.px[i][c] - img1.px[i][c] }
              /\ (Size(img1) # Size(img2)) => out = <<"size_mismatch">>
        /\ pc = "rendered" => Size(diff_img) = Size(img1)

C8_Witness ==
    /\ pc = "compared"
    /\ Size(img1) = <<2, 2>> /\ Size(img2) = <<1, 1>>
    /\ metrics.total_pixels = 4
    /\ Printed("size_mismatch")

\* C9: colored_pixels is the number of pixels with a channel below 250;
\* horizontal_transitions is the number of rows y in 0..height-2 with a colored
\* pixel in row y and none in row y+1; vertical_transitions likewise on columns
\* 0..width-2; a bitmap with no colored pixel has all three at 0.
C9_StructuralCounts ==
    pc = "detected" =>
        LET colored(y, x) ==
                \/ img1.px[y * img1.w + x][1] < 250
                \/ img1.px[y * img1.w + x][2] < 250
                \/ img1.px[y * img1.w + x][3] < 250
            rows == 0..(img1.h - 1)
            cols == 0..(img1.w - 1)
            rowHas(y) == \E x \in cols : colored(y, x)
            colHas(x) == \E y \in rows : colored(y, x)
        IN  /\ c_elements.colored_pixels
                  = Cardinality({ yx \in rows \X cols : colored(yx[1], yx[2]) })
            /\ c_elements.horizontal_transitions
                  = Cardinality({ y \in 0..(img1.h - 2) : rowHas(y) /\ ~rowHas(y + 1) })
            /\ c_elements.vertical_transitions
                  = Cardinality({ x \in 0..(img1.w - 2) : colHas(x) /\ ~colHas(x + 1) })
            /\ (\A yx \in rows \X cols : ~colored(yx[1], yx[2])) =>
                  /\ c_elements.colored_pixels = 0
                  /\ c_elements.horizontal_transitions = 0
                  /\ c_elements.vertical_transitions = 0

C9_Witness ==
    /\ pc = "detected"
    /\ img1.w = 2 /\ img1.h = 2
    /\ img1.px[0] = <<255, 249, 255>>
    /\ img1.px[3] = <<250, 250, 250>>
    /\ c_elements.colored_pixels = 1
    /\ c_elements.horizontal_transitions = 1
    /\ c_elements.vertical_transitions = 1

\* C10: every channel of the saved difference bitmap is min(255, 10 * |a - b|):
\* within 0..255, 0 exactly when the two channels are equal, and 255 for every
\* channel difference of 26 or more.
C10_AmplifiedAndClamped ==
    pc = "rendered" =>
        \A i \in Cells(img1), c \in 1..3 :
            LET a == img1.px[i][c]
                b == arr2.px[i][c]
                d == IF a > b THEN a - b ELSE b - a
                v == diff_img.px[i][c]
            IN  /\ v = (IF 10 * d < 255 THEN 10 * d ELSE 255)
                /\ v \in 0..255
                /\ (v = 0) <=> (a = b)
                /\ (d >= 26) => (v = 255)

C10_Witness ==
    /\ pc = "rendered"
    /\ Size(img1) = Size(img2)
    /\ img1.px[0] = White /\ img2.px[0] = <<225, 250, 0>>
    /\ diff_img.px[0] = <<255, 50, 255>>

\* C5: once the differ has succeeded, main reaches its end with each of the
\* three later stages reported: as done when it did not raise, as skipped or
\* failed when it did, whatever the earlier stages did.
C5_StagesReportedToCompletion ==
    (pc = "region") ~>
        ( /\ pc = "done"
          /\ Printed("complete")
          /\ fault.region <=> Printed("regions_skipped")
          /\ ~fault.region <=> Printed("regions_header")
          /\ (fault.detect # {}) <=> Printed("elements_skipped")
          /\ (fault.detect = {}) <=> Printed("java_elements")
          /\ fault.diffmap <=> Printed("diffmap_error")
          /\ ~fault.diffmap <=> Printed("diffmap_saved") )

C5_Witness ==
    /\ pc = "done"
    /\ fault.region /\ fault.detect = {1, 2} /\ fault.diffmap
    /\ Printed("regions_skipped") /\ Printed("elements_skipped")
    /\ Printed("diffmap_error") /\ Printed("complete")

====
